---- MODULE Spec2Model ----
(***************************************************************************)
(* Model of the batch annotation pipeline of processor.py (NewsProcessor):  *)
(* chunking, the two-pass generate/audit protocol, the retrying structured  *)
(* call, reconciliation by index, recovery of omitted items and fallback.   *)
(* The inference service is the environment: every request it receives is   *)
(* answered nondeterministically with an error, an unparsed response or a   *)
(* BatchResult whose entries are drawn from the input sets below (missing,  *)
(* out-of-range, repeated and reordered indices; category ids below, inside *)
(* and above 1..7; empty and non-empty summaries).                          *)
(* One step of the model is the code between two blocking points: a request *)
(* to the service or a time.sleep.                                          *)
(***************************************************************************)
EXTENDS Integers, Sequences, FiniteSets, TLC

VARIABLES
    articles,            \* argument of process_articles_in_chunks
    chunk_size,          \* argument of process_articles_in_chunks
    chunks,              \* processor.py:32
    i,                   \* processor.py:37, 1-based loop index (0 before the loop)
    processed_articles,  \* processor.py:29, the list that is returned
    pc,                  \* position of the single thread of control
    chunk,               \* argument of _process_batch_two_pass
    pass1_result,        \* processor.py:78
    pass2_result,        \* processor.py:107
    final_result,        \* processor.py:109
    processed_chunk,     \* processor.py:112 / value returned for the chunk
    failed_originals,    \* processor.py:112
    recovery_result,     \* processor.py:220
    stage_name,          \* argument of _call_gemini_structured
    attempt,             \* processor.py:129
    error_msg,           \* processor.py:149
    sleep_time,          \* the argument of the time.sleep in progress
    requests,            \* requests made so far by the current (or, once it
                         \* has returned, the last) _call_gemini_structured
    successes,           \* successful requests made for the current chunk
    calls,               \* stage names of the _call_gemini_structured
                         \* invocations started for the current chunk
    audit_dropped        \* local positions of the current chunk that Pass 1's
                         \* result named and Pass 2's result left out

vars == <<articles, chunk_size, chunks, i, processed_articles, pc, chunk,
          pass1_result, pass2_result, final_result, processed_chunk,
          failed_originals, recovery_result, stage_name, attempt, error_msg,
          sleep_time, requests, successes, calls, audit_dropped>>

----------------------------------------------------------------------------
(* Bounds of the model *)

MaxItems == 2
MaxChunkSize == 2

(* chunk sizes the caller may pass: negative, zero and positive *)
ChunkSizeInputs == -1 .. MaxChunkSize

(* the category id and the summary the service may put in an entry: ids
   below, inside and above 1..7, summaries empty and non-empty *)
AnnotationInputs ==
    { [category_id |-> 0, summary |-> "A"],
      [category_id |-> 7, summary |-> ""],
      [category_id |-> 8, summary |-> "B"] }

(* the number of entries the service may put in one BatchResult *)
EntryCountInputs == {0, 1, 2}

(* indices the service may echo for a prompt of n items: every local
   position, one below and one above *)
IndexInputs(n) == -1 .. n

----------------------------------------------------------------------------
(* Program constants *)

CATEGORIES ==
    << "1. Top News", "2. Market & Origin", "3. Retail & Business",
       "4. Roasting & Science", "5. Tech & Gear", "6. Sustainability",
       "7. Events & Culture" >>

max_retries == 3
base_delay == 15
RateLimitDelay == 65
BatchDelay == 10
RecoveryDelay == 10

FallbackSummary == "API fallback: automatic summarization failed"
RecoveryFallbackSummary == "Recovery fallback: summarization failed even in auto-recovery"

ParsedMissingMessage ==
    << "p", "a", "r", "s", "e", "d", " ", "m", "i", "s", "s", "i", "n", "g" >>

(* str(e) of the errors the client library may raise, as character lists *)
ErrorMessageInputs ==
    { << "4", "2", "9", " ", "R", "E", "S", "O", "U", "R", "C", "E" >>,
      << "5", "0", "3", " ", "U", "N", "A", "V", "A", "I", "L" >>,
      << "5", "0", "0", " ", "i", "d", "=", "7", "4", "2", "9", "1" >> }

----------------------------------------------------------------------------
(* Python values *)

None == [type |-> "NoneType"]

BatchResult(entries) == [type |-> "BatchResult", articles |-> entries]

ProcessedArticle(idx, cat, text) ==
    [index |-> idx, category_id |-> cat, summary |-> text]

(* Truthy as if a result with no entry were false, as a list is *)
TruthyNonEmpty(x) == x.type # "NoneType" /\ x.articles # << >>

(* bool(x) for the values _call_gemini_structured handles: None is false, a
   pydantic model defines neither __bool__ nor __len__ and is always true *)
Truthy(x) == x.type # "NoneType"

(* the operator `needle in haystack` on str *)
StrContains(haystack, needle) ==
    \E k \in 0 .. (Len(haystack) - Len(needle)) :
        SubSeq(haystack, k + 1, k + Len(needle)) = needle

(* list[k] for a Python list held as a 1-based sequence, with negative
   indices counting from the end *)
PyIndex(list, k) ==
    IF k < 0 THEN list[Len(list) + k + 1] ELSE list[k + 1]

(* list[lo:hi] for 0 <= lo <= hi *)
PySlice(list, lo, hi) ==
    SubSeq(list, lo + 1, IF hi < Len(list) THEN hi ELSE Len(list))

(* PyRange0 with the number of starts rounded down, which leaves out the
   start of a short last slice *)
PyRange0RoundsDown(stop, step) ==
    IF step > 0
    THEN [k \in 1 .. (stop \div step) |-> (k - 1) * step]
    ELSE << >>

(* list(range(0, stop, step)) for stop >= 0 and step # 0 *)
PyRange0(stop, step) ==
    IF step > 0
    THEN [k \in 1 .. ((stop + step - 1) \div step) |-> (k - 1) * step]
    ELSE << >>

(* d[key] = value on a dict held as a function *)
DictSet(d, key, value) ==
    [k \in (DOMAIN d) \cup {key} |-> IF k = key THEN value ELSE d[k]]

(* Lookup with the entries keyed by their place in the list, as if the
   service answered in the order of the prompt *)
LookupByPosition(entries) ==
    [k \in 0 .. (Len(entries) - 1) |-> entries[k + 1]]

(* Lookup that keeps the first entry of an index *)
RECURSIVE LookupFirstWins(_)
LookupFirstWins(entries) ==
    IF entries = << >> THEN << >>
    ELSE LET n == Len(entries)
             rest == LookupFirstWins(SubSeq(entries, 1, n - 1))
             last == entries[n]
         IN  [k \in (DOMAIN rest) \cup {last.index} |->
                 IF k \in DOMAIN rest THEN rest[k] ELSE last]

(* {item.index: item for item in entries}: a later entry replaces an
   earlier one of the same index *)
RECURSIVE Lookup(_)
Lookup(entries) ==
    IF entries = << >> THEN << >>
    ELSE LET n == Len(entries)
             rest == Lookup(SubSeq(entries, 1, n - 1))
             last == entries[n]
         IN  [k \in (DOMAIN rest) \cup {last.index} |->
                 IF k = last.index THEN last ELSE rest[k]]

----------------------------------------------------------------------------
(* The inputs of the model *)

(* the caller's items; an item is a dict, identified here by its position
   in the caller's list *)
ArticleInputs(len) == [k \in 1 .. len |-> [id |-> k]]

(* the articles lists a BatchResult may carry for a prompt of n items *)
EntryInputs(n) ==
    { ProcessedArticle(idx, a.category_id, a.summary) :
        idx \in IndexInputs(n), a \in AnnotationInputs }

ResponseInputs(n) ==
    UNION { [1 .. m -> EntryInputs(n)] : m \in EntryCountInputs }

----------------------------------------------------------------------------
(* The pure parts of NewsProcessor *)

(* processor.py:32 *)
Chunker(list, size) ==
    LET starts == PyRange0(Len(list), size)
    IN  [k \in DOMAIN starts |-> PySlice(list, starts[k], starts[k] + size)]

(* MergeCategory without the default of line 179 *)
MergeCategoryNoDefault(category_id) ==
    LET cat_idx == category_id - 1
    IN  IF 0 <= cat_idx /\ cat_idx < Len(CATEGORIES)
        THEN PyIndex(CATEGORIES, cat_idx)
        ELSE ""

(* MergeCategory without the lower bound of line 176 *)
MergeCategoryWraps(category_id) ==
    LET cat_idx == category_id - 1
    IN  IF cat_idx < Len(CATEGORIES)
        THEN PyIndex(CATEGORIES, cat_idx)
        ELSE PyIndex(CATEGORIES, 0)

(* processor.py:174-179 *)
MergeCategory(category_id) ==
    LET cat_idx == category_id - 1
    IN  IF 0 <= cat_idx /\ cat_idx < Len(CATEGORIES)
        THEN PyIndex(CATEGORIES, cat_idx)
        ELSE PyIndex(CATEGORIES, 0)

(* processor.py:181 *)
MergeSummary(ai_data) == ai_data.summary

(* MergeResults without the else branch of lines 183-185 *)
MergeResultsDropsOmitted(original_chunk, batch_result) ==
    LET result_lookup == Lookup(batch_result.articles)
        RECURSIVE Loop(_, _, _)
        Loop(k, processed, failed) ==
            IF k >= Len(original_chunk)
            THEN [processed_chunk |-> processed, failed_originals |-> failed]
            ELSE LET article == original_chunk[k + 1]
                 IN  IF k \in DOMAIN result_lookup
                     THEN LET ai_data == result_lookup[k]
                              c == DictSet(article, "category",
                                           MergeCategory(ai_data.category_id))
                              p == DictSet(c, "summary", MergeSummary(ai_data))
                          IN  Loop(k + 1, Append(processed, p), failed)
                     ELSE Loop(k + 1, processed, failed)
    IN  Loop(0, << >>, << >>)

(* MergeResults that also lists the annotated items as failed *)
MergeResultsFailsAnnotated(original_chunk, batch_result) ==
    LET result_lookup == Lookup(batch_result.articles)
        RECURSIVE Loop(_, _, _)
        Loop(k, processed, failed) ==
            IF k >= Len(original_chunk)
            THEN [processed_chunk |-> processed, failed_originals |-> failed]
            ELSE LET article == original_chunk[k + 1]
                 IN  IF k \in DOMAIN result_lookup
                     THEN LET ai_data == result_lookup[k]
                              c == DictSet(article, "category",
                                           MergeCategory(ai_data.category_id))
                              p == DictSet(c, "summary", MergeSummary(ai_data))
                          IN  Loop(k + 1, Append(processed, p),
                                   Append(failed, article))
                     ELSE Loop(k + 1, processed, Append(failed, article))
    IN  Loop(0, << >>, << >>)

(* processor.py:158-187 *)
MergeResults(original_chunk, batch_result) ==
    LET result_lookup == Lookup(batch_result.articles)
        RECURSIVE Loop(_, _, _)
        Loop(k, processed, failed) ==
            IF k >= Len(original_chunk)
            THEN [processed_chunk |-> processed, failed_originals |-> failed]
            ELSE LET article == original_chunk[k + 1]
                 IN  IF k \in DOMAIN result_lookup
                     THEN LET ai_data == result_lookup[k]
                              c == DictSet(article, "category",
                                           MergeCategory(ai_data.category_id))
                              p == DictSet(c, "summary", MergeSummary(ai_data))
                          IN  Loop(k + 1, Append(processed, p), failed)
                     ELSE Loop(k + 1, processed, Append(failed, article))
    IN  Loop(0, << >>, << >>)

(* BuildFallbackChunk taking the label at index 1 of the table *)
BuildFallbackChunkSecondLabel(list) ==
    [k \in DOMAIN list |->
        DictSet(DictSet(list[k], "category", PyIndex(CATEGORIES, 1)),
                "summary", FallbackSummary)]

(* processor.py:189-197 *)
BuildFallbackChunk(list) ==
    [k \in DOMAIN list |->
        DictSet(DictSet(list[k], "category", PyIndex(CATEGORIES, 0)),
                "summary", FallbackSummary)]

(* processor.py:232-233 *)
RecoverCategory(category_id) ==
    LET cat_idx == category_id - 1
    IN  IF 0 <= cat_idx /\ cat_idx < Len(CATEGORIES)
        THEN PyIndex(CATEGORIES, cat_idx)
        ELSE PyIndex(CATEGORIES, 0)

(* RecoverMerge enumerating the failed items from 1 *)
RecoverMergeOneBased(failed_chunk, result) ==
    LET result_lookup == Lookup(result.articles)
    IN  [k \in DOMAIN failed_chunk |->
            IF k \in DOMAIN result_lookup
            THEN LET ai_data == result_lookup[k]
                 IN  DictSet(DictSet(failed_chunk[k], "category",
                                     RecoverCategory(ai_data.category_id)),
                             "summary", ai_data.summary)
            ELSE DictSet(DictSet(failed_chunk[k], "category",
                                 PyIndex(CATEGORIES, 0)),
                         "summary", RecoveryFallbackSummary)]

(* processor.py:225-242, the reconciliation of a recovery result *)
RecoverMerge(failed_chunk, result) ==
    LET result_lookup == Lookup(result.articles)
    IN  [k \in DOMAIN failed_chunk |->
            IF (k - 1) \in DOMAIN result_lookup
            THEN LET ai_data == result_lookup[k - 1]
                 IN  DictSet(DictSet(failed_chunk[k], "category",
                                     RecoverCategory(ai_data.category_id)),
                             "summary", ai_data.summary)
            ELSE DictSet(DictSet(failed_chunk[k], "category",
                                 PyIndex(CATEGORIES, 0)),
                         "summary", RecoveryFallbackSummary)]

(* RecoveredChunk that gives the items of a failed recovery the records of
   lines 235-239 instead of the fallback chunk *)
RecoveredChunkNoFallbackChunk(failed_chunk, recovery) ==
    RecoverMerge(failed_chunk,
                 IF Truthy(recovery) THEN recovery ELSE BatchResult(<< >>))

(* processor.py:222-242, what _recover_failed_articles returns once its call
   to the service has returned recovery *)
RecoveredChunk(failed_chunk, recovery) ==
    IF ~Truthy(recovery)
    THEN BuildFallbackChunk(failed_chunk)
    ELSE RecoverMerge(failed_chunk, recovery)

(* processor.py:152 *)
SleepTime(msg, n) ==
    IF StrContains(msg, << "4", "2", "9" >>)
    THEN RateLimitDelay
    ELSE base_delay * (n + 1)

(* CallerItems with the records built on the caller's dicts themselves, as
   without the dict(article) of lines 166, 192 and 229 *)
CallerItemsWrittenInPlace(list, records) ==
    [k \in DOMAIN list |->
        IF \E r \in DOMAIN records : records[r].id = list[k].id
        THEN LET r == CHOOSE r \in DOMAIN records :
                          records[r].id = list[k].id
             IN  DictSet(DictSet(list[k], "category", records[r].category),
                         "summary", records[r].summary)
        ELSE list[k]]

(* processor.py:166, 192, 229: the caller's items once the records have
   been built. Every record is built on dict(article), a new dict, and the
   item assignments of lines 174-181, 193-195 and 232-238 write to that
   dict; the prompt takes a slice of the body (lines 57 and 203), which is
   a new string. No write reaches the caller's items. *)
CallerItems(list, records) == list

----------------------------------------------------------------------------
(* The state machine *)

(* the number of items in the prompt of the invocation in progress *)
PromptItems ==
    IF stage_name = "Recovery Pass" THEN Len(failed_originals) ELSE Len(chunk)

Init ==
    /\ articles \in { ArticleInputs(len) : len \in 0 .. MaxItems }
    /\ chunk_size \in ChunkSizeInputs
    /\ chunks = << >>
    /\ i = 0
    /\ processed_articles = << >>
    /\ pc = "start"
    /\ chunk = << >>
    /\ pass1_result = None
    /\ pass2_result = None
    /\ final_result = None
    /\ processed_chunk = << >>
    /\ failed_originals = << >>
    /\ recovery_result = None
    /\ stage_name = ""
    /\ attempt = 0
    /\ error_msg = << >>
    /\ sleep_time = 0
    /\ requests = 0
    /\ successes = 0
    /\ calls = << >>
    /\ audit_dropped = {}

(* processor.py:37-39 and 48-78: the loop takes chunk k and
   _process_batch_two_pass starts its Pass 1 invocation *)
EnterChunk(k, list) ==
    /\ i' = k
    /\ chunk' = list[k]
    /\ pass1_result' = None
    /\ pass2_result' = None
    /\ final_result' = None
    /\ processed_chunk' = << >>
    /\ failed_originals' = << >>
    /\ recovery_result' = None
    /\ stage_name' = "Pass 1"
    /\ attempt' = 0
    /\ error_msg' = << >>
    /\ sleep_time' = 0
    /\ requests' = 0
    /\ successes' = 0
    /\ calls' = << "Pass 1" >>
    /\ audit_dropped' = {}
    /\ pc' = "call"

(* processor.py:29-37: the chunks are built (range raises ValueError for a
   step of 0) and the loop starts *)
Start ==
    /\ pc = "start"
    /\ UNCHANGED <<articles, chunk_size>>
    /\ IF chunk_size = 0
       THEN /\ pc' = "raised"
            /\ UNCHANGED <<chunks, i, processed_articles, chunk, pass1_result,
                           pass2_result, final_result, processed_chunk,
                           failed_originals, recovery_result, stage_name,
                           attempt, error_msg, sleep_time, requests, successes,
                           calls, audit_dropped>>
       ELSE /\ chunks' = Chunker(articles, chunk_size)
            /\ processed_articles' = << >>
            /\ IF chunks' = << >>
               THEN /\ pc' = "done"
                    /\ UNCHANGED <<i, chunk, pass1_result, pass2_result,
                                   final_result, processed_chunk,
                                   failed_originals, recovery_result,
                                   stage_name, attempt, error_msg, sleep_time,
                                   requests, successes, calls,
                                   audit_dropped>>
               ELSE EnterChunk(1, chunks')

(* ChunkReturns with the chunk's records put in front of the output *)
ChunkReturnsPrepends(out) ==
    /\ processed_chunk' = out
    /\ processed_articles' = out \o processed_articles
    /\ stage_name' = ""
    /\ attempt' = 0
    /\ requests' = requests + 1
    /\ IF i < Len(chunks)
       THEN pc' = "batch_delay" /\ sleep_time' = BatchDelay
       ELSE pc' = "done" /\ sleep_time' = 0
    /\ UNCHANGED <<chunks, i, chunk, calls>>

(* processor.py:39-46: _process_batch_two_pass returns out; the loop extends
   the output and sleeps before the next chunk, or returns after the last *)
ChunkReturns(out) ==
    /\ processed_chunk' = out
    /\ processed_articles' = processed_articles \o out
    /\ stage_name' = ""
    /\ attempt' = 0
    /\ requests' = requests + 1
    /\ IF i < Len(chunks)
       THEN pc' = "batch_delay" /\ sleep_time' = BatchDelay
       ELSE pc' = "done" /\ sleep_time' = 0
    /\ UNCHANGED <<chunks, i, chunk, calls>>

(* Pass1Returns that hands the chunk to the recovery invocation in place of
   the audit *)
Pass1ReturnsSkipsAudit(res) ==
    /\ pass1_result' = res
    /\ UNCHANGED audit_dropped
    /\ IF ~Truthy(res)
       THEN /\ ChunkReturns(BuildFallbackChunk(chunk))
            /\ UNCHANGED <<pass2_result, final_result, failed_originals,
                           recovery_result>>
       ELSE /\ stage_name' = "Recovery Pass"
            /\ calls' = Append(calls, "Recovery Pass")
            /\ failed_originals' = chunk
            /\ attempt' = 0
            /\ requests' = 0
            /\ pc' = "call"
            /\ sleep_time' = 0
            /\ UNCHANGED <<chunks, i, chunk, processed_articles, pass2_result,
                           final_result, processed_chunk, recovery_result>>

(* Pass1Returns without the check of line 80: Pass 2 is invoked whatever
   Pass 1 returned *)
Pass1ReturnsNoCheck(res) ==
    /\ pass1_result' = res
    /\ UNCHANGED audit_dropped
    /\ stage_name' = "Pass 2"
    /\ calls' = Append(calls, "Pass 2")
    /\ attempt' = 0
    /\ requests' = 0
    /\ pc' = "call"
    /\ sleep_time' = 0
    /\ UNCHANGED <<chunks, i, chunk, processed_articles, pass2_result,
                   final_result, processed_chunk, failed_originals,
                   recovery_result>>

(* processor.py:78-81: the Pass 1 invocation returned res *)
Pass1Returns(res) ==
    /\ pass1_result' = res
    /\ UNCHANGED audit_dropped
    /\ IF ~Truthy(res)
       THEN /\ ChunkReturns(BuildFallbackChunk(chunk))
            /\ UNCHANGED <<pass2_result, final_result, failed_originals,
                           recovery_result>>
       ELSE /\ stage_name' = "Pass 2"
            /\ calls' = Append(calls, "Pass 2")
            /\ attempt' = 0
            /\ requests' = 0
            /\ pc' = "call"
            /\ sleep_time' = 0
            /\ UNCHANGED <<chunks, i, chunk, processed_articles, pass2_result,
                           final_result, processed_chunk, failed_originals,
                           recovery_result>>

(* FinalResult that keeps Pass 1's entries for the indices Pass 2's result
   leaves out *)
FinalResultKeepsPass1Entries(p2, p1) ==
    IF Truthy(p2)
    THEN BatchResult(SelectSeq(p1.articles,
                               LAMBDA e : \A q \in DOMAIN p2.articles :
                                             p2.articles[q].index # e.index)
                     \o p2.articles)
    ELSE p1

(* FinalResult without the degradation to Pass 1's result *)
FinalResultAuditOnly(p2, p1) == p2

(* processor.py:109 *)
FinalResult(p2, p1) == IF Truthy(p2) THEN p2 ELSE p1

(* the local positions of list that Pass 1's result p1 names and that Pass 2
   has left out by returning a result p2 without them *)
AuditDropped(list, p1, p2) ==
    IF Truthy(p2)
    THEN { k \in 0 .. (Len(list) - 1) :
             /\ \E e \in DOMAIN p1.articles : p1.articles[e].index = k
             /\ \A e \in DOMAIN p2.articles : p2.articles[e].index # k }
    ELSE {}

(* Pass2Returns without the test of line 114: recovery is started also when
   no item is missing *)
Pass2ReturnsAlwaysRecovers(res) ==
    LET final == FinalResult(res, pass1_result)
        merged == MergeResults(chunk, final)
    IN  /\ pass2_result' = res
        /\ final_result' = final
        /\ audit_dropped' = AuditDropped(chunk, pass1_result, res)
        /\ pass1_result' = None
        /\ recovery_result' = None
        /\ processed_chunk' = merged.processed_chunk
        /\ failed_originals' = merged.failed_originals
        /\ pc' = "recovery_delay"
        /\ sleep_time' = RecoveryDelay
        /\ stage_name' = ""
        /\ attempt' = 0
        /\ requests' = requests + 1
        /\ UNCHANGED <<chunks, i, chunk, processed_articles, calls>>

(* processor.py:107-122: the Pass 2 invocation returned res. pass1_result is
   not read after line 109 and is forgotten here. *)
Pass2Returns(res) ==
    LET final == FinalResult(res, pass1_result)
        merged == MergeResults(chunk, final)
    IN  /\ pass2_result' = res
        /\ final_result' = final
        /\ audit_dropped' = AuditDropped(chunk, pass1_result, res)
        /\ pass1_result' = None
        /\ recovery_result' = None
        /\ IF Truthy(final)
           THEN IF merged.failed_originals # << >>
                THEN /\ processed_chunk' = merged.processed_chunk
                     /\ failed_originals' = merged.failed_originals
                     /\ pc' = "recovery_delay"
                     /\ sleep_time' = RecoveryDelay
                     /\ stage_name' = ""
                     /\ attempt' = 0
                     /\ requests' = requests + 1
                     /\ UNCHANGED <<chunks, i, chunk, processed_articles,
                                    calls>>
                ELSE /\ ChunkReturns(merged.processed_chunk)
                     /\ failed_originals' = merged.failed_originals
           ELSE /\ ChunkReturns(BuildFallbackChunk(chunk))
                /\ UNCHANGED failed_originals

(* RecoveryReturns that starts the recovery over when its request has
   failed *)
RecoveryReturnsRecoversAgain(res) ==
    IF ~Truthy(res) /\ Len(calls) < 4
    THEN /\ recovery_result' = res
         /\ pc' = "recovery_delay"
         /\ sleep_time' = RecoveryDelay
         /\ stage_name' = ""
         /\ attempt' = 0
         /\ requests' = requests + 1
         /\ UNCHANGED <<chunks, i, chunk, processed_articles, calls,
                        pass1_result, pass2_result, final_result,
                        processed_chunk, failed_originals, audit_dropped>>
    ELSE /\ recovery_result' = res
         /\ ChunkReturns(processed_chunk
                         \o RecoveredChunk(failed_originals, res))
         /\ UNCHANGED <<pass1_result, pass2_result, final_result,
                        failed_originals, audit_dropped>>

(* processor.py:220-242 and 118-120: the recovery invocation returned res *)
RecoveryReturns(res) ==
    /\ recovery_result' = res
    /\ ChunkReturns(processed_chunk \o RecoveredChunk(failed_originals, res))
    /\ UNCHANGED <<pass1_result, pass2_result, final_result, failed_originals,
                   audit_dropped>>

(* _call_gemini_structured returns res to the stage that invoked it *)
CallReturns(res) ==
    CASE stage_name = "Pass 1" -> Pass1Returns(res)
      [] stage_name = "Pass 2" -> Pass2Returns(res)
      [] stage_name = "Recovery Pass" -> RecoveryReturns(res)

(* processor.py:131-144: a request is answered with a parsed BatchResult *)
RequestSucceeds ==
    /\ pc = "call"
    /\ attempt < max_retries
    /\ \E entries \in ResponseInputs(PromptItems) :
           CallReturns(BatchResult(entries))
    /\ successes' = successes + 1
    /\ error_msg' = << >>
    /\ articles' = CallerItems(articles, processed_chunk')
    /\ UNCHANGED chunk_size

(* RequestFails re-raising the error of the last attempt *)
RequestFailsRaises ==
    /\ pc = "call"
    /\ attempt < max_retries
    /\ \E msg \in ErrorMessageInputs \cup {ParsedMissingMessage} :
           /\ error_msg' = msg
           /\ IF attempt < max_retries - 1
              THEN /\ pc' = "backoff"
                   /\ sleep_time' = SleepTime(msg, attempt)
              ELSE /\ pc' = "raised"
                   /\ sleep_time' = 0
    /\ requests' = requests + 1
    /\ UNCHANGED <<articles, chunk_size, successes, chunks, i,
                   processed_articles, chunk, pass1_result, pass2_result,
                   final_result, processed_chunk, failed_originals,
                   recovery_result, stage_name, attempt, calls,
                   audit_dropped>>

(* RequestFails that sleeps after the last attempt as after the others *)
RequestFailsAlwaysWaits ==
    /\ pc = "call"
    /\ attempt < max_retries
    /\ \E msg \in ErrorMessageInputs \cup {ParsedMissingMessage} :
           /\ error_msg' = msg
           /\ sleep_time' = SleepTime(msg, attempt)
    /\ pc' = "backoff"
    /\ requests' = requests + 1
    /\ UNCHANGED <<articles, chunk_size, successes, chunks, i,
                   processed_articles, chunk, pass1_result, pass2_result,
                   final_result, processed_chunk, failed_originals,
                   recovery_result, stage_name, attempt, calls,
                   audit_dropped>>

(* processor.py:131-156: a request raises, or its response has no parsed
   payload; the invocation sleeps and retries, or gives up with None *)
RequestFails ==
    /\ pc = "call"
    /\ attempt < max_retries
    /\ \E msg \in ErrorMessageInputs \cup {ParsedMissingMessage} :
           /\ error_msg' = msg
           /\ IF attempt < max_retries - 1
              THEN /\ pc' = "backoff"
                   /\ sleep_time' = SleepTime(msg, attempt)
                   /\ requests' = requests + 1
                   /\ UNCHANGED <<chunks, i, processed_articles, chunk,
                                  pass1_result, pass2_result, final_result,
                                  processed_chunk, failed_originals,
                                  recovery_result, stage_name, attempt, calls,
                                  audit_dropped>>
              ELSE CallReturns(None)
    /\ articles' = CallerItems(articles, processed_chunk')
    /\ UNCHANGED <<chunk_size, successes>>

(* Backoff that starts the attempts over after the sleep, as a retry that
   calls the client anew would *)
BackoffRestarts ==
    /\ pc = "backoff"
    /\ attempt' = 0
    /\ requests' = 0
    /\ sleep_time' = 0
    /\ error_msg' = << >>
    /\ pc' = "call"
    /\ UNCHANGED <<articles, chunk_size, chunks, i, processed_articles, chunk,
                   pass1_result, pass2_result, final_result, processed_chunk,
                   failed_originals, recovery_result, stage_name, successes,
                   calls, audit_dropped>>

(* processor.py:153 and 129: the backoff sleep ends, the next attempt starts *)
Backoff ==
    /\ pc = "backoff"
    /\ attempt' = attempt + 1
    /\ sleep_time' = 0
    /\ error_msg' = << >>
    /\ pc' = "call"
    /\ UNCHANGED <<articles, chunk_size, chunks, i, processed_articles, chunk,
                   pass1_result, pass2_result, final_result, processed_chunk,
                   failed_originals, recovery_result, stage_name, requests,
                   successes, calls, audit_dropped>>

(* processor.py:219-220: the sleep before the recovery call ends and the
   recovery invocation starts. final_result and pass2_result are not read
   again and are forgotten here. *)
RecoveryDelayEnds ==
    /\ pc = "recovery_delay"
    /\ stage_name' = "Recovery Pass"
    /\ calls' = Append(calls, "Recovery Pass")
    /\ attempt' = 0
    /\ requests' = 0
    /\ sleep_time' = 0
    /\ final_result' = None
    /\ pass2_result' = None
    /\ pc' = "call"
    /\ UNCHANGED <<articles, chunk_size, chunks, i, processed_articles, chunk,
                   pass1_result, processed_chunk, failed_originals,
                   recovery_result, error_msg, successes, audit_dropped>>

(* processor.py:44 and 37: the sleep between two chunks ends *)
BatchDelayEnds ==
    /\ pc = "batch_delay"
    /\ EnterChunk(i + 1, chunks)
    /\ UNCHANGED <<articles, chunk_size, chunks, processed_articles>>

Next ==
    \/ Start
    \/ RequestSucceeds
    \/ RequestFails
    \/ Backoff
    \/ RecoveryDelayEnds
    \/ BatchDelayEnds

Spec == Init /\ [][Next]_vars

(* The program is one sequential thread: every request returns or raises and
   every time.sleep ends, so the step that is possible is taken. *)
FairSpec == Spec /\ WF_vars(Next)

----------------------------------------------------------------------------
(* Vocabulary of the properties *)

(* a chunk has just been completed: its output is in processed_chunk and at
   the end of processed_articles *)
ChunkEnd == pc \in {"batch_delay", "done"} /\ i >= 1

(* process_articles_in_chunks has returned processed_articles *)
Returned == pc = "done"

(* the positions of list at which the record of the caller's item is *)
PositionsOf(list, article) ==
    { j \in DOMAIN list : list[j].id = article.id }

(* the local positions (0-based) a BatchResult names, inside a prompt of n *)
IndicesOf(result) == { result.articles[p].index : p \in DOMAIN result.articles }

(* the last entry of result whose index is k *)
LastEntry(result, k) ==
    LET ps == { p \in DOMAIN result.articles : result.articles[p].index = k }
    IN  result.articles[CHOOSE p \in ps : \A q \in ps : q <= p]

(* the label a category id stands for: the k-th label for k in 1..7, the
   first label for every other id *)
LabelOf(category_id) ==
    IF category_id \in 1 .. 7 THEN CATEGORIES[category_id] ELSE CATEGORIES[1]

Labels == { CATEGORIES[k] : k \in DOMAIN CATEGORIES }

----------------------------------------------------------------------------
(* C1 - Completeness: for a positive chunk size the call does not raise, and
   when it has returned, the output has exactly as many records as the input
   has items, and every input item is the origin of exactly one record,
   whatever the service answered. *)
C1_Completeness ==
    chunk_size >= 1 =>
        /\ pc # "raised"
        /\ Returned =>
              /\ Len(processed_articles) = Len(articles)
              /\ \A k \in DOMAIN articles :
                     Cardinality(PositionsOf(processed_articles, articles[k])) = 1

(* a run of two chunks has returned, the second chunk after a recovery whose
   result was reconciled *)
C1_Witness ==
    /\ Returned
    /\ chunk_size >= 1
    /\ Len(chunks) = 2
    /\ Len(articles) = 2
    /\ Truthy(recovery_result)
    /\ Len(failed_originals) = 1

(* C2 - process_articles_in_chunks never raises, for every chunk size the
   caller passes. *)
C2_NeverRaises == pc # "raised"

(* the local positions of the chunk that result names *)
Covered(list, result) ==
    { k \in 0 .. (Len(list) - 1) : k \in IndicesOf(result) }

(* list has exactly one record of article, and it is article with the
   given category and summary *)
HasRecord(list, article, category, summary) ==
    /\ Cardinality(PositionsOf(list, article)) = 1
    /\ \A j \in PositionsOf(list, article) :
           /\ DOMAIN list[j] = (DOMAIN article) \cup {"category", "summary"}
           /\ list[j].summary = summary
           /\ list[j].category = category

(* the record of list for article carries the summary and the category of
   entry *)
Carries(list, article, entry) ==
    HasRecord(list, article, LabelOf(entry.category_id), entry.summary)

(* the step in which the recovery invocation returns and the chunk ends *)
RecoveryEnds ==
    pc = "call" /\ stage_name = "Recovery Pass" /\ pc' \in {"batch_delay", "done"}

(* the reconciled records of a chunk agree with the last entry of each index *)
C3_AtReconciliation ==
    Truthy(final_result) =>
        \A k \in Covered(chunk, final_result) :
            Carries(processed_chunk, chunk[k + 1], LastEntry(final_result, k))

(* C3 - Attribution: whenever the final result of a chunk has an entry of
   index k, the record of the item at local position k carries the summary
   and the category of the entry of index k (of the last one, should the
   result repeat the index), wherever the entry stands in the result; the
   recovery of the other items leaves these records as they are, at the
   head of the chunk's output. *)
C3_Attribution ==
    /\ []C3_AtReconciliation
    /\ [][RecoveryEnds =>
            SubSeq(processed_chunk', 1, Len(processed_chunk)) = processed_chunk]_vars

(* a final result of two entries in reverse order of their indices has been
   reconciled with a chunk of two items *)
C3_Witness ==
    /\ Truthy(final_result)
    /\ Len(chunk) = 2
    /\ Len(final_result.articles) = 2
    /\ final_result.articles[1].index = 1
    /\ final_result.articles[2].index = 0
    /\ final_result.articles[1].summary # final_result.articles[2].summary
    /\ Len(processed_chunk) = 2

(* C4 - Category domain: every record of the output, and every record
   prepared for it, has a category, and it is one of the 7 labels. *)
C4_CategoryDomain ==
    \A list \in {processed_articles, processed_chunk} :
        \A j \in DOMAIN list :
            /\ "category" \in DOMAIN list[j]
            /\ list[j].category \in Labels

(* the call has returned records of all kinds: one annotated with a label
   other than the first, one from the whole-chunk fallback or one from the
   per-item fallback of the recovery *)
C4_Witness ==
    /\ Returned
    /\ Len(processed_articles) = 2
    /\ \E j \in DOMAIN processed_articles :
           processed_articles[j].category = CATEGORIES[7]
    /\ \E j \in DOMAIN processed_articles :
           processed_articles[j].summary = RecoveryFallbackSummary

(* C5 - Non-empty summary: every record of the output has a non-empty
   summary. *)
C5_NonEmptySummary ==
    \A j \in DOMAIN processed_articles :
        /\ "summary" \in DOMAIN processed_articles[j]
        /\ processed_articles[j].summary # ""

(* the records at the end of the output that the last completed chunk gave *)
ChunkOutput ==
    SubSeq(processed_articles,
           Len(processed_articles) - Len(chunk) + 1, Len(processed_articles))

(* C6 - Total collapse: while no request made for a chunk has succeeded, no
   pass but Pass 1 is invoked for it; when the chunk ends that way, every
   item of it has one record, with the first label and the fallback
   summary; nothing is raised, and the sleep after the chunk is followed by
   Pass 1 of the next chunk. *)
C6_TotalCollapse ==
    /\ [](successes = 0 => stage_name \in {"", "Pass 1"})
    /\ [](i >= 1 => pc # "raised")
    /\ [](ChunkEnd /\ successes = 0 =>
            /\ Len(ChunkOutput) = Len(chunk)
            /\ ChunkOutput = processed_chunk
            /\ \A k \in DOMAIN chunk :
                   /\ ChunkOutput[k].id = chunk[k].id
                   /\ ChunkOutput[k].category = CATEGORIES[1]
                   /\ ChunkOutput[k].summary = FallbackSummary)
    /\ [][pc = "batch_delay" =>
            pc' = "call" /\ stage_name' = "Pass 1" /\ i' = i + 1
            /\ chunk' = chunks[i + 1]]_vars

(* the second of two chunks ended after three failed requests, the first
   one having collapsed too *)
C6_Witness ==
    /\ Returned
    /\ i = 2
    /\ successes = 0
    /\ requests = 3
    /\ Len(processed_articles) = 2
    /\ processed_articles[1].summary = FallbackSummary

(* the items of list at the positions (1-based) of keep, in their order *)
RECURSIVE KeepPositions(_, _)
KeepPositions(list, keep) ==
    IF list = << >> THEN << >>
    ELSE LET n == Len(list)
             front == KeepPositions(SubSeq(list, 1, n - 1), keep)
         IN  IF n \in keep THEN Append(front, list[n]) ELSE front

(* the items of the chunk whose local position result does not name *)
Omitted(list, result) ==
    KeepPositions(list, { k \in DOMAIN list : (k - 1) \notin IndicesOf(result) })

(* the recovery of the current chunk is waiting to start or is running *)
InRecovery == pc = "recovery_delay" \/ stage_name = "Recovery Pass"

C7_Routing ==
    Truthy(final_result) =>
        /\ failed_originals = Omitted(chunk, final_result)
        /\ failed_originals # << >> => pc = "recovery_delay"

C7_Recovered ==
    ChunkEnd /\ Truthy(recovery_result) =>
        \A j \in 0 .. (Len(failed_originals) - 1) :
            IF j \in IndicesOf(recovery_result)
            THEN Carries(ChunkOutput, failed_originals[j + 1],
                         LastEntry(recovery_result, j))
            ELSE HasRecord(ChunkOutput, failed_originals[j + 1],
                           CATEGORIES[1], RecoveryFallbackSummary)

(* C7 - Recovery invocation: when the final result of a chunk names only a
   subset S of the chunk's local positions, the list handed to the Recovery
   Agent is exactly the items whose position is not in S, in chunk order
   (so the item at place j of that list is index j of the recovery prompt),
   and it stays that list until the chunk ends; when the recovery result
   has an entry of index j (the last one, should it repeat the index), the
   item at place j receives that entry's annotation, and when it has none,
   the item receives the recovery's fallback record. *)
C7_RecoveryInvocation ==
    /\ []C7_Routing
    /\ [][InRecovery =>
            failed_originals' = failed_originals /\ chunk' = chunk]_vars
    /\ [](InRecovery /\ pc = "call" => PromptItems = Len(failed_originals))
    /\ []C7_Recovered

(* both items of a chunk went to recovery, whose result named the first of
   them only: the first is recovered, the second gets the fallback *)
C7_Witness ==
    /\ ChunkEnd
    /\ Truthy(recovery_result)
    /\ Len(chunk) = 2
    /\ Len(failed_originals) = 2
    /\ IndicesOf(recovery_result) \cap {0, 1} = {0}
    /\ ChunkOutput[2].summary = RecoveryFallbackSummary
    /\ ChunkOutput[1].summary = "B"

(* the step in which the Pass 2 invocation gives up and returns None *)
Pass2GivesUp ==
    /\ pc = "call"
    /\ stage_name = "Pass 2"
    /\ pc' # "backoff"
    /\ ~Truthy(pass2_result')

(* C8 - Graceful audit degradation: when Pass 2 returns no result (Pass 1
   had returned one), the final result is Pass 1's result, the chunk is
   reconciled against it, the items it omits go to recovery, and when it
   omits none the chunk's output is that reconciliation; the chunk does not
   fall back as a whole. *)
C8_AuditDegradation ==
    [][Pass2GivesUp =>
         LET merged == MergeResults(chunk, pass1_result)
         IN  /\ Truthy(pass1_result)
             /\ final_result' = pass1_result
             /\ processed_chunk' = merged.processed_chunk
             /\ failed_originals' = merged.failed_originals
             /\ IF merged.failed_originals = << >>
                THEN /\ pc' \in {"batch_delay", "done"}
                     /\ processed_articles' =
                            processed_articles \o merged.processed_chunk
                ELSE /\ pc' = "recovery_delay"
                     /\ processed_articles' = processed_articles]_vars

(* Pass 2 has given up after three requests and the chunk's record comes
   from Pass 1's result *)
C8_Witness ==
    /\ Truthy(final_result)
    /\ ~Truthy(pass2_result)
    /\ requests = 3
    /\ Len(processed_chunk) >= 1
    /\ processed_chunk[1].summary = "A"

(* the category ids the resolvers are compared on, around 1..7 *)
CategoryIdRange == -3 .. 10

(* the record of article in list has the label that entry's id stands for *)
HasLabelOf(list, article, entry) ==
    \A j \in PositionsOf(list, article) :
        list[j].category = LabelOf(entry.category_id)

(* C9 - Default-category safety: the Reconciler and the Recovery Agent both
   resolve a category id k in 1..7 to the k-th label and every other id
   (0, 8, negative ones) to the first label, never to a label counted from
   the end of the table; the records they build carry the label so
   resolved from the entry applied to the item. *)
C9_DefaultCategory ==
    /\ \A c \in CategoryIdRange :
           /\ MergeCategory(c) = LabelOf(c)
           /\ RecoverCategory(c) = LabelOf(c)
           /\ c \notin 1 .. 7 =>
                  MergeCategory(c) = CATEGORIES[1] /\ RecoverCategory(c) = CATEGORIES[1]
    /\ Truthy(final_result) =>
           \A k \in Covered(chunk, final_result) :
               HasLabelOf(processed_chunk, chunk[k + 1], LastEntry(final_result, k))
    /\ ChunkEnd /\ Truthy(recovery_result) =>
           \A j \in Covered(failed_originals, recovery_result) :
               HasLabelOf(ChunkOutput, failed_originals[j + 1],
                          LastEntry(recovery_result, j))

(* a chunk ended whose first item was reconciled from an entry of category
   id 7 and whose second item was recovered from an entry of category id 0 *)
C9_Witness ==
    /\ ChunkEnd
    /\ Truthy(recovery_result)
    /\ Len(chunk) = 2
    /\ Len(failed_originals) = 1
    /\ recovery_result.articles = << ProcessedArticle(0, 0, "A") >>
    /\ ChunkOutput[1].category = CATEGORIES[7]
    /\ ChunkOutput[2].category = CATEGORIES[1]

(* the value the invocation in progress hands to its caller in this step *)
ReturnValue ==
    CASE stage_name = "Pass 1" -> pass1_result'
      [] stage_name = "Pass 2" -> pass2_result'
      [] stage_name = "Recovery Pass" -> recovery_result'

(* C10 - Bounded retry: a request is made only as one of the first 3 of its
   invocation; if it is answered with a parsed result the invocation
   returns that result at once (no further request); if it fails and was
   not the third, the invocation sleeps and stays in the same stage; if the
   third fails the invocation returns None; no request makes the call
   raise. *)
C10_BoundedRetry ==
    /\ [](requests <= 3)
    /\ [][pc = "call" =>
            /\ requests < 3
            /\ pc' # "raised"
            /\ IF successes' = successes + 1
               THEN /\ pc' # "backoff"
                    /\ Truthy(ReturnValue)
                    /\ stage_name' # stage_name
               ELSE IF requests + 1 < 3
                    THEN /\ pc' = "backoff"
                         /\ stage_name' = stage_name
                         /\ requests' = requests + 1
                    ELSE /\ pc' # "backoff"
                         /\ ReturnValue = None
                         /\ stage_name' # stage_name]_vars
    /\ [][pc = "backoff" =>
            pc' = "call" /\ stage_name' = stage_name /\ requests' = requests]_vars

(* the Pass 2 invocation returned a result from its third request *)
C10_Witness ==
    /\ Truthy(pass2_result)
    /\ requests = 3
    /\ error_msg = << >>
    /\ pc = "recovery_delay"

(***************************************************************************)
(* C11  Chunker partition                                                  *)
(***************************************************************************)

ChunkerLengths == 0 .. 7
ChunkerSizes == 1 .. 4

RECURSIVE Concatenation(_)
Concatenation(lists) ==
    IF lists = << >> THEN << >>
    ELSE Head(lists) \o Concatenation(Tail(lists))

(* parts cuts list into consecutive slices of size items, the last one
   possibly shorter, none empty *)
IsPartition(list, size, parts) ==
    LET count == (Len(list) + size - 1) \div size
    IN  /\ Len(parts) = count
        /\ \A k \in 1 .. count :
              /\ parts[k] # << >>
              /\ Len(parts[k]) <= size
              /\ (k < count => Len(parts[k]) = size)
              /\ \A j \in 1 .. Len(parts[k]) :
                    parts[k][j] = list[(k - 1) * size + j]
        /\ Concatenation(parts) = list

(* C11: for a chunk size N >= 1 the chunks are a function of the article
   list and N alone: consecutive slices in the original order, each of at
   most N items, every one but the last of exactly N, none empty, and their
   concatenation is the article list.  Stated of the chunks the run holds
   and of the chunker on lists of up to seven items. *)
C11_ChunkerPartition ==
    /\ (pc # "start" /\ chunk_size >= 1) =>
          /\ chunks = Chunker(articles, chunk_size)
          /\ IsPartition(articles, chunk_size, chunks)
    /\ \A len \in ChunkerLengths : \A size \in ChunkerSizes :
          IsPartition(ArticleInputs(len), size,
                      Chunker(ArticleInputs(len), size))

(* two items cut into two chunks of one, all of them processed *)
C11_Witness ==
    /\ Returned
    /\ chunk_size = 1
    /\ Len(chunks) = 2
    /\ Len(processed_articles) = 2

(***************************************************************************)
(* C12  Chunk order in the output                                          *)
(***************************************************************************)

(* the chunks whose records are in the output *)
CompletedChunks == IF i = 0 THEN 0 ELSE IF ChunkEnd THEN i ELSE i - 1

(* the number of items in the first k chunks *)
ItemsUpTo(k) == Len(Concatenation(SubSeq(chunks, 1, k)))

(* the part of the output that holds the records of chunk k *)
OutputOfChunk(k) ==
    SubSeq(processed_articles, ItemsUpTo(k - 1) + 1, ItemsUpTo(k))

(* C12: the output is the concatenation of the chunks' outputs in chunk
   order: it grows only when a chunk ends, by that chunk's output at the
   end; the records of chunk k lie before those of chunk k+1, and each item
   of chunk k is the origin of exactly one record of chunk k's part,
   whatever the order of the records inside the part. *)
C12_ChunkOrder ==
    /\ [](pc \notin {"start", "raised"} =>
            /\ Len(processed_articles) = ItemsUpTo(CompletedChunks)
            /\ \A k \in 1 .. CompletedChunks :
                  /\ Len(OutputOfChunk(k)) = Len(chunks[k])
                  /\ \A j \in DOMAIN chunks[k] :
                        Cardinality(PositionsOf(OutputOfChunk(k),
                                                chunks[k][j])) = 1)
    /\ [][processed_articles' # processed_articles /\ pc # "start" =>
            /\ pc = "call"
            /\ pc' \in {"batch_delay", "done"}
            /\ processed_articles' = processed_articles \o processed_chunk'
            /\ Len(processed_chunk') = Len(chunk)]_vars

(* two chunks: the item of the first got its record from recovery, the
   item of the second from reconciliation, and the records are in chunk
   order *)
C12_Witness ==
    /\ Returned
    /\ Len(chunks) = 2
    /\ processed_articles[1].id = chunks[1][1].id
    /\ processed_articles[1].summary = RecoveryFallbackSummary
    /\ processed_articles[2].id = chunks[2][1].id
    /\ processed_articles[2].summary = "A"

(***************************************************************************)
(* C13  Pass 2 never runs without a Pass 1 result                          *)
(***************************************************************************)

(* the Pass 1 invocation of the current chunk returns None in this step *)
Pass1GivesUp ==
    /\ pc = "call"
    /\ stage_name = "Pass 1"
    /\ pc' # "backoff"
    /\ ~Truthy(pass1_result')

(* C13: Pass 2 is invoked for a chunk only by the step in which Pass 1 of
   that chunk returns a result, and holds that result while it runs; when
   Pass 1 returns None the same step ends the chunk with the fallback
   records, and the chunk has had no invocation but Pass 1: no Pass 2 and
   no recovery. *)
C13_Pass2NeedsPass1 ==
    /\ [](stage_name = "Pass 2" =>
            /\ Truthy(pass1_result)
            /\ successes >= 1
            /\ calls = << "Pass 1", "Pass 2" >>)
    /\ [][stage_name' = "Pass 2" /\ stage_name # "Pass 2" =>
            /\ pc = "call"
            /\ stage_name = "Pass 1"
            /\ i' = i
            /\ Truthy(pass1_result')
            /\ successes' = successes + 1]_vars
    /\ [][Pass1GivesUp =>
            /\ pc' \in {"batch_delay", "done"}
            /\ stage_name' = ""
            /\ calls' = << "Pass 1" >>
            /\ processed_chunk' = BuildFallbackChunk(chunk)
            /\ processed_articles' =
                  processed_articles \o BuildFallbackChunk(chunk)]_vars
    /\ [](ChunkEnd /\ successes = 0 => calls = << "Pass 1" >>)
    /\ [][pc = "batch_delay" => calls' = << "Pass 1" >>]_vars

(* Pass 1 of the first of two chunks returned None and the chunk fell back
   with Pass 1 as its only invocation *)
C13_Witness ==
    /\ pc = "batch_delay"
    /\ i = 1
    /\ successes = 0
    /\ calls = << "Pass 1" >>
    /\ processed_chunk = BuildFallbackChunk(chunk)
    /\ processed_articles = processed_chunk

(***************************************************************************)
(* C14  Reconciler partition                                               *)
(***************************************************************************)

(* C14: when the chunk has been reconciled against the final result, each
   item of the chunk is in exactly one of the annotated list and the missing
   list, once: in the annotated list when its local position is the index
   of some entry of the result, in the missing list when it is not;
   whatever indices the result carries. *)
C14_ReconcilerPartition ==
    Truthy(final_result) =>
        /\ Len(processed_chunk) + Len(failed_originals) = Len(chunk)
        /\ \A k \in DOMAIN chunk :
              LET annotated == PositionsOf(processed_chunk, chunk[k])
                  missing == PositionsOf(failed_originals, chunk[k])
              IN  IF (k - 1) \in IndicesOf(final_result)
                  THEN Cardinality(annotated) = 1 /\ missing = {}
                  ELSE annotated = {} /\ Cardinality(missing) = 1

(* a result of two entries, one with an index outside the chunk of two:
   the first item is annotated, the second is missing *)
C14_Witness ==
    /\ Truthy(final_result)
    /\ Len(chunk) = 2
    /\ IndicesOf(final_result) = {0, 2}
    /\ PositionsOf(processed_chunk, chunk[1]) = {1}
    /\ PositionsOf(failed_originals, chunk[2]) = {1}

(***************************************************************************)
(* C15  Recovery trigger                                                   *)
(***************************************************************************)

(* the Pass 2 invocation of the current chunk returns in this step *)
Pass2Ends ==
    /\ pc = "call"
    /\ stage_name = "Pass 2"
    /\ pc' # "backoff"

(* the stages invoked for the current chunk *)
StagesCalled == { calls[k] : k \in DOMAIN calls }

(* C15: recovery is started for a chunk exactly when the reconciliation
   against the final result left items missing: the sleep before recovery
   begins only in the step that reconciles, and only with a non-empty
   missing list; the recovery invocation begins only after that sleep; and
   when the final result names every local position, the chunk ends in the
   reconciling step with neither the sleep nor the request. *)
C15_RecoveryTrigger ==
    /\ [][Pass2Ends =>
            /\ Truthy(final_result')
            /\ failed_originals' = Omitted(chunk, final_result')
            /\ (pc' = "recovery_delay") <=> (failed_originals' # << >>)
            /\ (failed_originals' = << >>) =>
                  /\ pc' \in {"batch_delay", "done"}
                  /\ calls' = << "Pass 1", "Pass 2" >>
                  /\ processed_articles' =
                        processed_articles \o processed_chunk']_vars
    /\ [][pc' = "recovery_delay" /\ pc # "recovery_delay" => Pass2Ends]_vars
    /\ [][stage_name' = "Recovery Pass" /\ stage_name # "Recovery Pass" =>
            pc = "recovery_delay"]_vars
    /\ [](InRecovery => failed_originals # << >>)
    /\ [](ChunkEnd =>
            ("Recovery Pass" \in StagesCalled) <=> (failed_originals # << >>))

(* the final result named both items of a chunk of two: the chunk ended
   after Pass 2, with no recovery *)
C15_Witness ==
    /\ ChunkEnd
    /\ Len(chunk) = 2
    /\ Truthy(final_result)
    /\ {0, 1} \subseteq IndicesOf(final_result)
    /\ failed_originals = << >>
    /\ calls = << "Pass 1", "Pass 2" >>

(***************************************************************************)
(* C16  Recovery is a single generate-only pass                            *)
(***************************************************************************)

(* the recovery invocation of the current chunk returns in this step *)
RecoveryCallEnds ==
    /\ pc = "call"
    /\ stage_name = "Recovery Pass"
    /\ pc' # "backoff"

(* C16: a chunk has at most one recovery invocation, and exactly one when
   items were missing; the step in which that invocation returns ends the
   chunk: the chunk's output is the reconciled records followed by what the
   recovery result gives the missing items (the fallback for those it
   leaves out), no pass is invoked on the recovery result and no second
   recovery is started. *)
C16_SingleRecoveryPass ==
    /\ [](Cardinality({ k \in DOMAIN calls : calls[k] = "Recovery Pass" }) <= 1)
    /\ [](ChunkEnd /\ failed_originals # << >> =>
            calls = << "Pass 1", "Pass 2", "Recovery Pass" >>)
    /\ [][RecoveryCallEnds =>
            /\ pc' \in {"batch_delay", "done"}
            /\ stage_name' = ""
            /\ calls' = calls
            /\ processed_chunk' =
                  processed_chunk \o RecoveredChunk(failed_originals,
                                                   recovery_result')
            /\ Len(processed_chunk') = Len(chunk)
            /\ processed_articles' =
                  processed_articles \o processed_chunk']_vars
    /\ [][stage_name = "Recovery Pass" =>
            stage_name' \in {"Recovery Pass", ""}]_vars
    /\ [][ChunkEnd =>
            pc' # "recovery_delay" /\ stage_name' # "Recovery Pass"]_vars

(* the recovery of a chunk of two returned a result that names neither of
   the two missing items, and the chunk ended with their fallback records *)
C16_Witness ==
    /\ ChunkEnd
    /\ Len(failed_originals) = 2
    /\ Truthy(recovery_result)
    /\ IndicesOf(recovery_result) \cap {0, 1} = {}
    /\ calls = << "Pass 1", "Pass 2", "Recovery Pass" >>
    /\ \A k \in 1 .. 2 : ChunkOutput[k].summary = RecoveryFallbackSummary

(***************************************************************************)
(* C17  Fallback record                                                    *)
(***************************************************************************)

(* Pass 1 of the chunk that has just ended returned None *)
Pass1Failed == ChunkEnd /\ successes = 0

(* the recovery invocation of the chunk that has just ended returned None *)
RecoveryFailed ==
    ChunkEnd /\ failed_originals # << >> /\ ~Truthy(recovery_result)

(* the recovery invocation of the chunk that has just ended returned a
   result *)
RecoverySucceeded ==
    ChunkEnd /\ failed_originals # << >> /\ Truthy(recovery_result)

(* the items handed to the recovery that its result does not name *)
StillAbsent == Omitted(failed_originals, recovery_result)

(* every item of list has a record in the chunk's output with the first
   label and the summary text *)
AllFallBack(list, text) ==
    \A k \in DOMAIN list : HasRecord(ChunkOutput, list[k], CATEGORIES[1], text)

(* C17 as stated: an item that ends with no annotation has the record with
   the first label and one and the same placeholder summary, be it that
   Pass 1 failed for its chunk, that the recovery call failed, or that a
   successful recovery result left the item out. *)
C17_SameFallbackRecord ==
    /\ Pass1Failed => AllFallBack(chunk, FallbackSummary)
    /\ RecoveryFailed => AllFallBack(failed_originals, FallbackSummary)
    /\ RecoverySucceeded => AllFallBack(StillAbsent, FallbackSummary)

(* C17 amended: an item that ends with no annotation has a record with the
   first label in all three cases; its summary is the placeholder of
   _build_fallback_chunk when Pass 1 failed for its chunk and when the
   recovery call failed, and the other placeholder, the one of the recovery
   loop, when a successful recovery result left the item out; the two
   placeholders are different texts. *)
C17_FallbackRecords ==
    /\ FallbackSummary # RecoveryFallbackSummary
    /\ Pass1Failed => AllFallBack(chunk, FallbackSummary)
    /\ RecoveryFailed => AllFallBack(failed_originals, FallbackSummary)
    /\ RecoverySucceeded => AllFallBack(StillAbsent, RecoveryFallbackSummary)

(* the one missing item of a chunk of two was left out by a recovery result
   with no entry, and has the placeholder of the recovery loop *)
C17_Witness ==
    /\ RecoverySucceeded
    /\ Len(chunk) = 2
    /\ Len(failed_originals) = 1
    /\ recovery_result.articles = << >>
    /\ HasRecord(ChunkOutput, failed_originals[1], CATEGORIES[1],
                 RecoveryFallbackSummary)

(***************************************************************************)
(* C18  Backoff schedule                                                   *)
(***************************************************************************)

(* the failure is a rate-limit rejection: the status code that leads the
   message of the error is 429 *)
RateLimitClass(msg) ==
    Len(msg) >= 3 /\ SubSeq(msg, 1, 3) = << "4", "2", "9" >>

(* C18: while an invocation waits between a failed request and the next
   one, the wait is 65 seconds when the failure was a rate-limit rejection
   and otherwise 15 seconds times the number of the failed attempt (15
   after the first, 30 after the second); the next request is made when the
   wait is over. *)
C18_BackoffSchedule ==
    /\ [](pc = "backoff" =>
            /\ attempt + 1 \in {1, 2}
            /\ sleep_time = IF RateLimitClass(error_msg)
                            THEN RateLimitDelay
                            ELSE base_delay * (attempt + 1))
    /\ [][pc = "backoff" =>
            pc' = "call" /\ attempt' = attempt + 1 /\ sleep_time' = 0]_vars
    /\ [][attempt' = attempt + 1 => pc = "backoff"]_vars

(***************************************************************************)
(* C19  Rate-ceiling delays                                                *)
(***************************************************************************)

(* an invocation of _call_gemini_structured starts in this step *)
InvocationStarts ==
    /\ pc' = "call"
    /\ attempt' = 0
    /\ (pc # "call" \/ stage_name' # stage_name)

(* C19: every invocation but the first of the pipeline starts at the end of
   a sleep: between the end of an invocation and the start of the next one
   (Pass 1 then Pass 2, the last main pass then the recovery, the last
   invocation of a chunk then Pass 1 of the next chunk) the pipeline
   sleeps. *)
C19_RateCeilingDelays ==
    [][InvocationStarts /\ pc # "start" =>
         pc \in {"recovery_delay", "batch_delay"} /\ sleep_time > 0]_vars

(***************************************************************************)
(* C20  Sequential execution                                               *)
(***************************************************************************)

StageOrder == << "Pass 1", "Pass 2", "Recovery Pass" >>

(* C20: the pipeline is at one place at a time, so the one request that may
   be outstanding is that of the invocation started last; the invocations
   of a chunk are started in the order Pass 1, Pass 2, recovery; and while
   chunk k+1 is worked on, the output holds one record for every item of
   the chunks 1..k: the next chunk is entered only from the sleep that
   follows the end of the chunk before, when that chunk's records, those of
   its recovery and its fallbacks included, are in the output. *)
C20_SequentialExecution ==
    /\ [](Len(calls) <= 3 /\ calls = SubSeq(StageOrder, 1, Len(calls)))
    /\ [](pc \in {"call", "backoff"} =>
            calls # << >> /\ stage_name = calls[Len(calls)])
    /\ [](pc \in {"call", "backoff", "recovery_delay"} =>
            /\ Len(processed_articles) = ItemsUpTo(i - 1)
            /\ \A k \in 1 .. (i - 1) : \A j \in DOMAIN chunks[k] :
                  Cardinality(PositionsOf(OutputOfChunk(k), chunks[k][j])) = 1)
    /\ [][i' # i =>
            /\ i' = i + 1
            /\ pc \in {"start", "batch_delay"}
            /\ Len(processed_articles) = ItemsUpTo(i)
            /\ stage_name' = "Pass 1"]_vars

(* the Pass 1 request of the second chunk is to be made, the first chunk's
   record, a fallback of its recovery, being in the output *)
C20_Witness ==
    /\ pc = "call"
    /\ i = 2
    /\ calls = << "Pass 1" >>
    /\ Len(processed_articles) = 1
    /\ processed_articles[1].id = chunks[1][1].id
    /\ processed_articles[1].summary = RecoveryFallbackSummary

(***************************************************************************)
(* C21  Forward progress                                                   *)
(***************************************************************************)

(* C21: a call with a positive chunk size returns, whatever the service
   answers to each request: from the start the pipeline reaches the state
   in which process_articles_in_chunks has returned; meanwhile no invocation
   goes beyond its three attempts and no chunk beyond its three
   invocations. *)
C21_ForwardProgress ==
    /\ (pc = "start" /\ chunk_size >= 1) ~> Returned
    /\ [](attempt < max_retries /\ Len(calls) <= 3)

(* the call has returned after the recovery of its last chunk had failed
   three times, the missing items having got the fallback *)
C21_Witness ==
    /\ Returned
    /\ calls = << "Pass 1", "Pass 2", "Recovery Pass" >>
    /\ ~Truthy(recovery_result)
    /\ requests = 3
    /\ Len(processed_articles) = Len(articles)
    /\ Len(articles) = 2

(***************************************************************************)
(* C22  Audit-dropped index                                                *)
(***************************************************************************)

(* the place (0-based) of article in the list handed to the recovery *)
RecoveryIndexOf(article) ==
    (CHOOSE j \in PositionsOf(failed_originals, article) : TRUE) - 1

(* C22: when Pass 2 returns a result without an index that Pass 1's result
   had, the item at that local position is missing after the
   reconciliation: it has no reconciled record and is handed to the
   recovery; its record in the chunk's output is the one the recovery
   gives it: the entry of the recovery result for it, the fallback of the
   recovery loop if that result leaves it out, and the fallback record if
   the recovery call fails, whatever Pass 1 had said of it. *)
C22_AuditDroppedIndex ==
    /\ [][Pass2Ends /\ Truthy(pass2_result') =>
            \A k \in 0 .. (Len(chunk) - 1) :
                (k \in IndicesOf(pass1_result)
                 /\ k \notin IndicesOf(pass2_result')) =>
                    /\ k \in audit_dropped'
                    /\ pc' = "recovery_delay"
                    /\ PositionsOf(processed_chunk', chunk[k + 1]) = {}
                    /\ Cardinality(PositionsOf(failed_originals',
                                               chunk[k + 1])) = 1]_vars
    /\ [](audit_dropped # {} => InRecovery \/ ChunkEnd)
    /\ [](\A k \in audit_dropped :
            Cardinality(PositionsOf(failed_originals, chunk[k + 1])) = 1)
    /\ [](ChunkEnd =>
            \A k \in audit_dropped :
                LET article == chunk[k + 1]
                    j == RecoveryIndexOf(article)
                IN  IF ~Truthy(recovery_result)
                    THEN HasRecord(ChunkOutput, article, CATEGORIES[1],
                                   FallbackSummary)
                    ELSE IF j \in IndicesOf(recovery_result)
                    THEN Carries(ChunkOutput, article,
                                 LastEntry(recovery_result, j))
                    ELSE HasRecord(ChunkOutput, article, CATEGORIES[1],
                                   RecoveryFallbackSummary))

(* Pass 1 had annotated the first item of a chunk of two, Pass 2's result
   left it out, the recovery call failed: the item has the fallback record *)
C22_Witness ==
    /\ ChunkEnd
    /\ Len(chunk) = 2
    /\ audit_dropped = {0}
    /\ ~Truthy(recovery_result)
    /\ HasRecord(ChunkOutput, chunk[1], CATEGORIES[1], FallbackSummary)

(***************************************************************************)
(* C23  Input items are read-only                                          *)
(***************************************************************************)

(* record has every field of article with article's value, and the two
   fields category and summary besides *)
ExtendsItem(record, article) ==
    /\ DOMAIN record = (DOMAIN article) \cup {"category", "summary"}
    /\ \A f \in DOMAIN article : record[f] = article[f]

(* C23: no step changes the caller's list: it holds the same items in the
   same order with the same fields and values, and no item gets a category
   or a summary key; each record of the output has all the fields of its
   item, unchanged, and category and summary besides. *)
C23_InputsReadOnly ==
    /\ [][articles' = articles]_vars
    /\ [](/\ articles = ArticleInputs(Len(articles))
          /\ \A k \in DOMAIN articles :
                DOMAIN articles[k] \cap {"category", "summary"} = {})
    /\ [](\A j \in DOMAIN processed_articles :
            \E k \in DOMAIN articles :
                ExtendsItem(processed_articles[j], articles[k]))

(* the call has returned two annotated records and the two items of the
   caller have no field but their own *)
C23_Witness ==
    /\ Returned
    /\ Len(articles) = 2
    /\ Len(processed_articles) = 2
    /\ \A k \in 1 .. 2 :
          /\ DOMAIN articles[k] = {"id"}
          /\ ExtendsItem(processed_articles[k], articles[k])
          /\ processed_articles[k].summary = "A"

(***************************************************************************)
(* C24  Entries out of range and entries of the same index                 *)
(***************************************************************************)

(* the places in result of the entries that count for a list of n items:
   the index is a local position of the list and no later entry has the
   same index *)
EffectiveEntries(result, n) ==
    { p \in DOMAIN result.articles :
        /\ result.articles[p].index \in 0 .. (n - 1)
        /\ \A q \in DOMAIN result.articles :
              q > p => result.articles[q].index # result.articles[p].index }

(* the local positions of a list of n items that result has an entry for *)
EffectiveIndices(result, n) ==
    { result.articles[p].index : p \in EffectiveEntries(result, n) }

(* C24: an entry whose index is no local position of the list it answers
   for (negative, or the length of the list or more) has no effect, in the
   reconciliation as in the recovery: there is one record per effective
   entry and no other, each record carries the entry of its own position,
   and an item no effective entry names is missing (in the recovery: gets
   the fallback of the recovery) whatever other entries the result has; of
   several entries with one index, the last is the one applied. *)
C24_StrayAndRepeatedIndices ==
    /\ Truthy(final_result) =>
          LET n == Len(chunk)
          IN  /\ Len(processed_chunk) =
                    Cardinality(EffectiveEntries(final_result, n))
              /\ \A p \in EffectiveEntries(final_result, n) :
                    Carries(processed_chunk,
                            chunk[final_result.articles[p].index + 1],
                            final_result.articles[p])
              /\ \A k \in 0 .. (n - 1) :
                    k \notin EffectiveIndices(final_result, n) =>
                        /\ PositionsOf(processed_chunk, chunk[k + 1]) = {}
                        /\ PositionsOf(failed_originals, chunk[k + 1]) # {}
    /\ (ChunkEnd /\ Truthy(recovery_result)) =>
          LET n == Len(failed_originals)
          IN  /\ Len(ChunkOutput) = Len(chunk)
              /\ \A p \in EffectiveEntries(recovery_result, n) :
                    Carries(ChunkOutput,
                            failed_originals[recovery_result.articles[p].index + 1],
                            recovery_result.articles[p])
              /\ \A k \in 0 .. (n - 1) :
                    k \notin EffectiveIndices(recovery_result, n) =>
                        HasRecord(ChunkOutput, failed_originals[k + 1],
                                  CATEGORIES[1], RecoveryFallbackSummary)

(* the recovery of one item returned two entries, of the indices -1 and 1,
   neither a position of the list of one: the item has the fallback of the
   recovery and the chunk has no record besides its own *)
C24_Witness ==
    /\ ChunkEnd
    /\ Truthy(recovery_result)
    /\ Len(failed_originals) = 1
    /\ IndicesOf(recovery_result) = {-1, 1}
    /\ Len(ChunkOutput) = Len(chunk)
    /\ HasRecord(ChunkOutput, failed_originals[1], CATEGORIES[1],
                 RecoveryFallbackSummary)

(***************************************************************************)
(* C25  A result with no entry                                             *)
(***************************************************************************)

(* x is a result and has no entry *)
EmptyResult(x) == x = BatchResult(<< >>)

(* the request made in this step is answered with a result with no entry *)
AnsweredEmpty ==
    /\ pc = "call"
    /\ successes' = successes + 1
    /\ EmptyResult(ReturnValue)

(* C25: a request answered with a result with no entry ends its invocation
   like any other answer: there is no sleep and no further attempt; as
   Pass 1's result it lets Pass 2 be invoked, as Pass 2's result it is the
   final result; and when the final result has no entry, be it Pass 2's or
   Pass 1's after Pass 2 gave up, no item is reconciled, all the items of
   the chunk are missing, and the chunk goes to recovery, not to the
   fallback chunk. *)
C25_EmptyResultAccepted ==
    /\ [][AnsweredEmpty => pc' # "backoff" /\ stage_name' # stage_name]_vars
    /\ [][AnsweredEmpty /\ stage_name = "Pass 1" =>
            /\ pc' = "call"
            /\ stage_name' = "Pass 2"
            /\ attempt' = 0
            /\ processed_articles' = processed_articles]_vars
    /\ [][AnsweredEmpty /\ stage_name = "Pass 2" =>
            final_result' = pass2_result']_vars
    /\ [][Pass2Ends /\ EmptyResult(final_result') =>
            /\ pc' = "recovery_delay"
            /\ processed_chunk' = << >>
            /\ failed_originals' = chunk
            /\ processed_articles' = processed_articles]_vars
    /\ [](EmptyResult(final_result) =>
            pc = "recovery_delay" /\ failed_originals = chunk)

(* Pass 2 has returned a result with no entry for a chunk of two: both
   items wait for the recovery *)
C25_Witness ==
    /\ pc = "recovery_delay"
    /\ EmptyResult(pass2_result)
    /\ final_result = pass2_result
    /\ Len(chunk) = 2
    /\ failed_originals = chunk
    /\ processed_chunk = << >>

(***************************************************************************)
(* C26  Request budget of a chunk                                          *)
(***************************************************************************)

(* the most requests the invocations started for the current chunk can
   have made: requests counts those of the invocation in progress and
   starts from 0 with each invocation *)
ChunkRequestBound == max_retries * (Len(calls) - 1) + requests

(* the last chunk returns in this step *)
LastChunkReturns ==
    /\ pc = "call"
    /\ i = Len(chunks)
    /\ pc' \notin {"call", "backoff", "recovery_delay"}

(* C26: a chunk has at most three invocations, Pass 1, Pass 2 and the
   recovery, each of at most three requests, nine requests at most; an
   invocation sleeps after its first and its second failed attempt only,
   the third failure ends it with no sleep; the sleep between chunks is
   taken after a chunk that has a successor and before that successor,
   and the last chunk is followed by the return with no sleep. *)
C26_RequestBudget ==
    /\ [](Len(calls) <= 3 /\ requests <= max_retries)
    /\ [](calls # << >> => ChunkRequestBound <= 9)
    /\ [](pc = "backoff" => attempt \in {0, 1} /\ requests \in {1, 2})
    /\ [][pc = "call" /\ attempt = max_retries - 1 => pc' # "backoff"]_vars
    /\ [](pc = "batch_delay" => i < Len(chunks) /\ sleep_time = BatchDelay)
    /\ [][LastChunkReturns => pc' = "done" /\ sleep_time' = 0]_vars
    /\ [][i' = i + 1 /\ i >= 1 => pc = "batch_delay"]_vars
    /\ [](Returned => sleep_time = 0)

(* the last of two chunks has had its three invocations, the recovery was
   answered at its third request, and the call has returned with no sleep *)
C26_Witness ==
    /\ Returned
    /\ i = 2
    /\ Len(chunks) = 2
    /\ calls = << "Pass 1", "Pass 2", "Recovery Pass" >>
    /\ requests = 3
    /\ Truthy(recovery_result)
    /\ sleep_time = 0

====
